---- MODULE Spec2Model ----
(***************************************************************************)
(* A model of roushagent/modules/output_manager.py: the OutputManager's    *)
(* dispatch table (registry), the plugin loader, dispatch with its         *)
(* per-transaction logger substitution, the built-in handlers and stop.    *)
(*                                                                         *)
(* Strings on which the code tests a prefix or a suffix (action names,     *)
(* path components) are sequences of tokens, so that startswith and        *)
(* endswith are computed and not looked up.  A path is a sequence of       *)
(* components.  Python exceptions are outcomes: an operation ends with     *)
(* exc = "none" (it returned) or with the name of the exception raised.    *)
(***************************************************************************)
EXTENDS Integers, Sequences, FiniteSets, TLC

VARIABLES dispatch_table, loaded_modules, output_plugins, shortpath,
          handlers, teardowns, last, trace, threads

vars == <<dispatch_table, loaded_modules, output_plugins, shortpath,
          handlers, teardowns, last, trace, threads>>

-----------------------------------------------------------------------------
(* Bounds of the model.                                                    *)

\* Load is not taken once loaded_modules would grow beyond this length.
MaxLoaded == 3
\* A dispatch that attaches a file handler is not taken once the
\* transaction loggers hold this many in all.
MaxHandlers == 2
\* Stop is not taken once some unit's teardown ran this many times.
MaxTeardowns == 1

-----------------------------------------------------------------------------
(* Strings.                                                                *)

startswith(s, prefix) ==
    /\ Len(s) >= Len(prefix)
    /\ SubSeq(s, 1, Len(prefix)) = prefix

endswith(s, suffix) ==
    /\ Len(s) >= Len(suffix)
    /\ SubSeq(s, Len(s) - Len(suffix) + 1, Len(s)) = suffix

\* os.path.basename and os.path.join on paths held as component sequences.
basename(path) == IF path = <<>> THEN <<>> ELSE path[Len(path)]

join(path, relpath) == Append(path, relpath)

\* p.endswith('.py') on the whole path: the suffix of its last component.
path_endswith(path, suffix) == path # <<>> /\ endswith(path[Len(path)], suffix)

-----------------------------------------------------------------------------
(* The file system the loader reads: two directories, plugin files and a   *)
(* path naming nothing.                                                    *)

PluginDir == << <<"plugins">> >>
ExtraDir == << <<"extra">> >>
SubDir == join(PluginDir, <<"sub", ".py">>)

FileA == join(PluginDir, <<"a", ".py">>)
FileB == join(PluginDir, <<"b", ".py">>)
FileNotes == join(ExtraDir, <<"notes", ".txt">>)
FileC == join(ExtraDir, <<"c", ".py">>)
FileE == join(PluginDir, <<"e", ".py">>)
Missing == << <<"nonexistent">> >>

Dirs == {PluginDir, ExtraDir, SubDir}

\* Action names.
Ping == <<"ping">>
Pong == <<"pong">>
Zap == <<"zap">>
RollbackPing == <<"rollback_", "ping">>
RollbackZz == <<"rollback_", "zz">>
RollbackNoUnderscore == <<"rollback", "zz">>
Nope == <<"nope">>
LogfileTail == <<"logfile.tail">>
ModulesList == <<"modules.list">>
ModulesLoad == <<"modules.load">>
ModulesActions == <<"modules.actions">>
ModulesReload == <<"modules.reload">>

\* One register_action call of a plugin's setup.
Reg(action, func, constraints, consequences, args) ==
    [action |-> action, func |-> func, constraints |-> constraints,
     consequences |-> consequences, args |-> args]

\* What executing each file leaves in its namespace: whether it defines
\* name, setup and teardown, and the registrations its setup makes, in order.
Unit(hasName, name, hasSetup, regs, hasTeardown) ==
    [hasName |-> hasName, name |-> name, hasSetup |-> hasSetup,
     regs |-> regs, hasTeardown |-> hasTeardown]

Units ==
    (FileA :> Unit(TRUE, "pa", TRUE,
                   << Reg(Ping, "a_ping", <<"c1">>, <<"q1">>, [x |-> "int"]),
                      Reg(RollbackPing, "a_rollback", <<>>, <<"q2">>, <<>>) >>,
                   TRUE))
 @@ (FileB :> Unit(TRUE, "modules", TRUE,
                   << Reg(Pong, "b_pong", <<"c3">>, <<>>, <<>>),
                      Reg(Ping, "b_ping", <<"c4">>, <<"q4">>, [y |-> "str"]) >>,
                   FALSE))
 @@ (FileNotes :> Unit(FALSE, "", FALSE, <<>>, FALSE))
 @@ (FileC :> Unit(FALSE, "", TRUE,
                   << Reg(Zap, "c_zap", <<>>, <<>>, <<>>) >>, TRUE))
 @@ (FileE :> Unit(TRUE, "pa", FALSE, <<>>, TRUE))

isfile(path) == path \in DOMAIN Units
isdir(path) == path \in Dirs

\* The entries os.listdir can return for a directory (in any order).
listdir(path) ==
    IF path = PluginDir
    THEN { <<"a", ".py">>, <<"b", ".py">>, <<"e", ".py">>, <<"sub", ".py">> }
    ELSE IF path = ExtraDir
    THEN { <<"c", ".py">>, <<"notes", ".txt">> }
    ELSE {}

-----------------------------------------------------------------------------
(* Values.                                                                 *)

\* A callable: the unit that defines it and its func_name.
Method(unit, func) == [unit |-> unit, func |-> func]
func_name(method) == method.func
Self == <<"self">>
handle_logfile == Method(Self, "handle_logfile")
handle_modules == Method(Self, "handle_modules")

\* The attributes of an OutputManager that are methods.
Methods == {"load", "_load_directory", "_load_file", "register_action",
            "actions", "dispatch", "handle_logfile", "handle_modules", "stop"}

\* Loggers: the plugin's own one, and the one of a transaction.
PluginLogger(name) == <<"output", name>>
TransLogger(id) == <<"trans", id>>

NoShortpath == <<"unset">>
NoId == "none"
Ids == {"t1", "t2"}

\* result_data values: '', {} and {'name': n, 'value': v}.
EmptyStr == <<"str">>
EmptyDict == <<"dict">>
NameValue(n, v) == <<"dict", n, v>>
Result(code, message, data) ==
    [result_code |-> code, result_str |-> message, result_data |-> data]

\* Python's None where a result dict is expected (nothing was returned).
NoneResult == Result(-1, <<"None">>, <<"None">>)

BuiltinEntry(fn) == <<fn, "modules", "modules", "modules", <<>>, <<>>, <<>>>>

\* The state an operation works on, with the exception it ended with.
\* tr collects what the operation did: handler calls, logger assignments,
\* file handlers attached, files read, sockets connected, teardowns run.
State(dt, lm, op, sp, th, td) ==
    [dt |-> dt, lm |-> lm, op |-> op, sp |-> sp, th |-> th, td |-> td,
     tr |-> <<>>, exc |-> "none", res |-> NoneResult]

Raise(st, exc) == [st EXCEPT !.exc = exc]
Return(st, result) == [st EXCEPT !.res = result]
Did(st, event) == [st EXCEPT !.tr = Append(@, event)]

-----------------------------------------------------------------------------
(* register_action.                                                        *)

\* "_, path, name = entry": unpacking succeeds only for three values.
UnpackError(entry) == IF Len(entry) = 3 THEN "none" ELSE "ValueError"

\* register_action without the "first handler wins" test: the entry is
\* overwritten.
register_action_overwrite(st, plugin, action, method, constraints, consequences, args) ==
    IF st.sp = NoShortpath
    THEN Raise(st, "AttributeError")
    ELSE [st EXCEPT !.dt = (action :> <<method, st.sp, func_name(method),
                                        plugin, constraints,
                                        consequences, args>>) @@ @]

register_action(st, plugin, action, method, constraints, consequences, args) ==
    IF action \in DOMAIN st.dt
    THEN IF UnpackError(st.dt[action]) # "none"
         THEN Raise(st, UnpackError(st.dt[action]))
         ELSE Raise(st, "NameError")
    ELSE IF st.sp = NoShortpath
         THEN Raise(st, "AttributeError")
         ELSE [st EXCEPT !.dt = (action :> <<method, st.sp, func_name(method),
                                             plugin, constraints,
                                             consequences, args>>) @@ @]

-----------------------------------------------------------------------------
(* The plugin loader.                                                      *)

\* ns['setup'](config): the unit's register_action calls, in order, through
\* partial(self.register_action, name); the first one that raises ends it.
RECURSIVE run_setup(_, _, _, _)
run_setup(st, name, path, regs) ==
    IF regs = <<>> \/ st.exc # "none"
    THEN st
    ELSE run_setup(register_action(st, name, regs[1].action,
                                   Method(path, regs[1].func),
                                   regs[1].constraints, regs[1].consequences,
                                   regs[1].args),
                   name, path, Tail(regs))

\* The namespace kept for a loaded unit.  gen tells the namespaces of two
\* loads apart (each load makes a new dict).
Namespace(name, path, gen) ==
    [LOG |-> PluginLogger(name), unit |-> path, gen |-> gen,
     teardown |-> Units[path].hasTeardown]

\* _load_file without line 122: the name is not appended to loaded_modules.
_load_file_unlisted(st, path) ==
    LET st1 == [st EXCEPT !.sp = basename(path)]
    IN  IF ~isfile(path)
        THEN Raise(st1, "IOError")
        ELSE IF ~Units[path].hasName
        THEN st1
        ELSE LET name == Units[path].name
                 gen == Len(st1.lm) + 1
                 st2 == [st1 EXCEPT
                           !.op = (name :> Namespace(name, path, gen)) @@ @,
                           !.td = IF Units[path].hasTeardown
                                  THEN (gen :> 0) @@ @ ELSE @]
             IN  IF Units[path].hasSetup
                 THEN run_setup(st2, name, path, Units[path].regs)
                 ELSE st2

\* _load_file undoing what it did when the unit's setup raises.
_load_file_rollback(st, path) ==
    LET st1 == [st EXCEPT !.sp = basename(path)]
    IN  IF ~isfile(path)
        THEN Raise(st1, "IOError")
        ELSE IF ~Units[path].hasName
        THEN st1
        ELSE LET name == Units[path].name
                 gen == Len(st1.lm) + 1
                 st2 == [st1 EXCEPT
                           !.lm = Append(@, name),
                           !.op = (name :> Namespace(name, path, gen)) @@ @,
                           !.td = IF Units[path].hasTeardown
                                  THEN (gen :> 0) @@ @ ELSE @]
                 r == run_setup(st2, name, path, Units[path].regs)
             IN  IF ~Units[path].hasSetup THEN st2
                 ELSE IF r.exc # "none" THEN Raise(st1, r.exc)
                 ELSE r

_load_file(st, path) ==
    LET st1 == [st EXCEPT !.sp = basename(path)]
    IN  IF ~isfile(path)
        THEN Raise(st1, "IOError")
        ELSE IF ~Units[path].hasName
        THEN st1
        ELSE LET name == Units[path].name
                 gen == Len(st1.lm) + 1
                 st2 == [st1 EXCEPT
                           !.lm = Append(@, name),
                           !.op = (name :> Namespace(name, path, gen)) @@ @,
                           !.td = IF Units[path].hasTeardown
                                  THEN (gen :> 0) @@ @ ELSE @]
             IN  IF Units[path].hasSetup
                 THEN run_setup(st2, name, path, Units[path].regs)
                 ELSE st2

RECURSIVE _load_directory(_, _, _)
_load_directory(st, path, dirlist) ==
    IF dirlist = <<>> \/ st.exc # "none"
    THEN st
    ELSE LET p == join(path, dirlist[1])
         IN  _load_directory(IF ~isdir(p) /\ path_endswith(p, <<".py">>)
                             THEN _load_file(st, p) ELSE st,
                             path, Tail(dirlist))

\* The argument of load: a list of paths, or one path.
PathArg(path) == [list |-> FALSE, path |-> path, items |-> <<>>]
ListArg(items) == [list |-> TRUE, path |-> <<>>, items |-> items]

\* load of one path; listing[d] is what os.listdir(d) returns this time.
load_path(st, path, listing) ==
    IF isdir(path)
    THEN _load_directory(st, path, listing[path])
    ELSE _load_file(st, path)

RECURSIVE load_list(_, _, _)
load_list(st, items, listing) ==
    IF items = <<>> \/ st.exc # "none"
    THEN st
    ELSE load_list(load_path(st, items[1], listing), Tail(items), listing)

load(st, arg, listing) ==
    IF arg.list
    THEN load_list(st, arg.items, listing)
    ELSE load_path(st, arg.path, listing)

-----------------------------------------------------------------------------
(* Work items and the built-in handlers.                                   *)

WorkItem(action, id, payload) ==
    [action |-> action, id |-> id, payload |-> payload]

\* A payload dict: the keys it holds and their values.
Payload(keys, path, task_id, dest_ip, dest_port) ==
    [keys |-> keys, path |-> path, task_id |-> task_id, dest_ip |-> dest_ip,
     dest_port |-> dest_port]

\* key in payload
has_key(payload, key) == key \in payload.keys

\* 'id' in input_data
has_id(input_data) == input_data.id # NoId

_ok(code, message, data) == Result(code, message, data)
_fail(message) == _ok(2, message, EmptyDict)
Success == _ok(0, <<"success">>, EmptyDict)

\* actions reading the plugin from the wrong place of the entry.
actions_func_name(dt) ==
    [k \in DOMAIN dt |-> [plugin |-> dt[k][3], constraints |-> dt[k][5],
                          consequences |-> dt[k][6], args |-> dt[k][7]]]

\* OutputManager.actions
actions(dt) ==
    [k \in DOMAIN dt |-> [plugin |-> dt[k][4], constraints |-> dt[k][5],
                          consequences |-> dt[k][6], args |-> dt[k][7]]]

\* self.loadfile(path): an attribute lookup on the manager, then the call.
loadfile(st, path) ==
    IF "loadfile" \in Methods
    THEN _load_file(st, path)
    ELSE Raise(st, "AttributeError")

\* handle_modules without the os.path.isfile test of modules.load.
handle_modules_fn_nocheck(st, input_data) ==
    LET action == input_data.action
        payload == input_data.payload
    IN  IF action = ModulesList
        THEN Return(st, _ok(0, <<"success">>,
                            NameValue("roush_agent_output_modules", st.lm)))
        ELSE IF action = ModulesActions
        THEN Return(st, _ok(0, <<"success">>,
                            NameValue("roush_agent_actions", actions(st.dt))))
        ELSE IF action = ModulesLoad
        THEN IF ~has_key(payload, "path")
             THEN Return(st, _fail(<<"no \"path\" specified in payload">>))
             ELSE LET r == loadfile(st, payload.path)
                  IN  IF r.exc # "none" THEN r ELSE Return(r, Success)
        ELSE Return(st, Success)

handle_modules_fn(st, input_data) ==
    LET action == input_data.action
        payload == input_data.payload
    IN  IF action = ModulesList
        THEN Return(st, _ok(0, <<"success">>,
                            NameValue("roush_agent_output_modules", st.lm)))
        ELSE IF action = ModulesActions
        THEN Return(st, _ok(0, <<"success">>,
                            NameValue("roush_agent_actions", actions(st.dt))))
        ELSE IF action = ModulesLoad
        THEN IF ~has_key(payload, "path")
             THEN Return(st, _fail(<<"no \"path\" specified in payload">>))
             ELSE IF ~isfile(payload.path)
             THEN Return(st, _fail(<<"specified module does not exist">>))
             ELSE LET r == loadfile(st, payload.path)
                  IN  IF r.exc # "none" THEN r ELSE Return(r, Success)
        ELSE Return(st, Success)

\* handle_logfile opening the transaction log file before it looks at the
\* payload's keys.
handle_logfile_fn_open_first(st, input_data, env) ==
    LET action == input_data.action
        payload == input_data.payload
        st1 == Did(st, <<"open", payload.task_id>>)
    IN  IF ~env.file
        THEN Raise(st1, "IOError")
        ELSE IF \/ ~has_key(payload, "task_id")
                \/ ~has_key(payload, "dest_ip")
                \/ ~has_key(payload, "dest_port")
        THEN Return(st1, _fail(<<"must specify task_id, dest_ip and dest_port">>))
        ELSE IF action = LogfileTail
        THEN LET st2 == Did(st1, <<"connect", payload.dest_ip,
                                   payload.dest_port>>)
             IN  IF ~env.conn
                 THEN Return(st2, _fail(<<"socket.error">>))
                 ELSE Return(Did(st2, <<"send">>), Success)
        ELSE Return(st1, NoneResult)

\* env.file: the transaction log file can be opened for reading;
\* env.conn: the peer accepts the connection.
handle_logfile_fn(st, input_data, env) ==
    LET action == input_data.action
        payload == input_data.payload
    IN  IF \/ ~has_key(payload, "task_id")
           \/ ~has_key(payload, "dest_ip")
           \/ ~has_key(payload, "dest_port")
        THEN Return(st, _fail(<<"must specify task_id, dest_ip and dest_port">>))
        ELSE IF action = LogfileTail
        THEN LET st1 == Did(st, <<"open", payload.task_id>>)
             IN  IF ~env.file
                 THEN Raise(st1, "IOError")
                 ELSE LET st2 == Did(st1, <<"connect", payload.dest_ip,
                                            payload.dest_port>>)
                      IN  IF ~env.conn
                          THEN Return(st2, _fail(<<"socket.error">>))
                          ELSE Return(Did(st2, <<"send">>), Success)
        ELSE Return(st, NoneResult)

\* The body of the callable fn.  A plugin's handler is opaque: it returns
\* the result hres.result, or raises when hres.raises.
body(st, fn, input_data, env, hres) ==
    IF fn = handle_modules THEN handle_modules_fn(st, input_data)
    ELSE IF fn = handle_logfile THEN handle_logfile_fn(st, input_data, env)
    ELSE IF hres.raises THEN Raise(st, "HandlerError")
    ELSE Return(st, hres.result)

\* fn(input_data), with the call and what it returned noted in the trace.
call(st, fn, input_data, env, hres) ==
    LET r == body(Did(st, <<"call", fn, input_data>>), fn, input_data, env, hres)
    IN  IF r.exc # "none" THEN r ELSE Did(r, <<"return", fn, r.res>>)

-----------------------------------------------------------------------------
(* dispatch.                                                               *)

NoDispatcher(action) ==
    Result(253, <<"no dispatcher found for action \"%s\"", action>>, EmptyStr)

NoRollback(action) ==
    Result(0, <<"no rollback action for %s", action>>, EmptyDict)

\* ns['LOG'] = logger, on the dict ns: it shows in output_plugins only
\* while output_plugins[plugin] is still that dict.
set_LOG(st, plugin, ns, logger) ==
    IF plugin \in DOMAIN st.op /\ st.op[plugin].gen = ns.gen
    THEN Did([st EXCEPT !.op[plugin].LOG = logger], <<"LOG", plugin, logger>>)
    ELSE st

\* The logger substitution attaching a file handler only to a logger that
\* has none.
enter_log_once(st, plugin, input_data) ==
    IF plugin \in DOMAIN st.op /\ has_id(input_data)
    THEN LET st1 == set_LOG(st, plugin, st.op[plugin],
                            TransLogger(input_data.id))
         IN  IF st.th[input_data.id] > 0
             THEN st1
             ELSE Did([st1 EXCEPT !.th[input_data.id] = @ + 1],
                      <<"addHandler", input_data.id>>)
    ELSE st

\* The logger substitution of lines 189-198.
enter_log(st, plugin, input_data) ==
    IF plugin \in DOMAIN st.op /\ has_id(input_data)
    THEN Did([set_LOG(st, plugin, st.op[plugin], TransLogger(input_data.id))
                EXCEPT !.th[input_data.id] = @ + 1],
             <<"addHandler", input_data.id>>)
    ELSE st

\* The handler call with a failure result replaced by a generic one.
call_and_restore_generic(st0, st, fn, plugin, input_data, env, hres) ==
    LET r == call(st, fn, input_data, env, hres)
        r1 == IF r.exc = "none" /\ r.res.result_code # 0
              THEN Return(r, Result(1, <<"failed to perform action">>, EmptyStr))
              ELSE r
    IN  IF r1.exc # "none"
        THEN r1
        ELSE IF plugin \in DOMAIN st0.op
             THEN set_LOG(r1, plugin, st0.op[plugin], st0.op[plugin].LOG)
             ELSE r1

\* Lines 201-204: the handler call, then the restore when it returned.
call_and_restore(st0, st, fn, plugin, input_data, env, hres) ==
    LET r == call(st, fn, input_data, env, hres)
    IN  IF r.exc # "none"
        THEN r
        ELSE IF plugin \in DOMAIN st0.op
             THEN set_LOG(r, plugin, st0.op[plugin], st0.op[plugin].LOG)
             ELSE r

\* dispatch testing the transaction log directory before the lookup.
dispatch_dir_first(st, input_data, env, hres) ==
    LET action == input_data.action
    IN  IF env.dir = "missing" THEN Raise(st, "OSError(2)")
        ELSE IF env.dir # "ok" THEN Raise(st, "OSError(13)")
        ELSE IF action \in DOMAIN st.dt
        THEN call_and_restore(st, enter_log(st, st.dt[action][4], input_data),
                              st.dt[action][1], st.dt[action][4], input_data,
                              env, hres)
        ELSE IF startswith(action, <<"rollback_">>)
             THEN Return(st, NoRollback(action))
             ELSE Return(st, NoDispatcher(action))

\* dispatch testing the transaction log directory after the logger
\* substitution.
dispatch_dir_late(st, input_data, env, hres) ==
    LET action == input_data.action
    IN  IF action \in DOMAIN st.dt
        THEN LET st1 == enter_log(st, st.dt[action][4], input_data)
             IN  IF env.dir = "missing" THEN Raise(st1, "OSError(2)")
                 ELSE IF env.dir # "ok" THEN Raise(st1, "OSError(13)")
                 ELSE call_and_restore(st, st1, st.dt[action][1],
                                       st.dt[action][4], input_data, env, hres)
        ELSE IF startswith(action, <<"rollback_">>)
             THEN Return(st, NoRollback(action))
             ELSE Return(st, NoDispatcher(action))

\* dispatch without the rollback_ case.
dispatch_no_rollback(st, input_data, env, hres) ==
    LET action == input_data.action
    IN  IF action \in DOMAIN st.dt
        THEN IF env.dir = "missing" THEN Raise(st, "OSError(2)")
             ELSE IF env.dir # "ok" THEN Raise(st, "OSError(13)")
             ELSE call_and_restore(st,
                                   enter_log(st, st.dt[action][4], input_data),
                                   st.dt[action][1], st.dt[action][4],
                                   input_data, env, hres)
        ELSE Return(st, NoDispatcher(action))

\* env.dir: "ok", "missing" (os.path.isdir(base) is false) or "unwritable"
\* (os.access(base, os.W_OK) is false).
dispatch(st, input_data, env, hres) ==
    LET action == input_data.action
    IN  IF action \in DOMAIN st.dt
        THEN LET fn == st.dt[action][1]
                 plugin == st.dt[action][4]
             IN  IF env.dir = "missing" THEN Raise(st, "OSError(2)")
                 ELSE IF env.dir # "ok" THEN Raise(st, "OSError(13)")
                 ELSE call_and_restore(st, enter_log(st, plugin, input_data),
                                       fn, plugin, input_data, env, hres)
        ELSE IF startswith(action, <<"rollback_">>)
             THEN Return(st, NoRollback(action))
             ELSE Return(st, NoDispatcher(action))

-----------------------------------------------------------------------------
(* stop.                                                                   *)

stop(st) ==
    [st EXCEPT !.td =
        [g \in DOMAIN st.td |->
            IF \E p \in DOMAIN st.op : st.op[p].teardown /\ st.op[p].gen = g
            THEN st.td[g] + 1 ELSE st.td[g]]]

-----------------------------------------------------------------------------
(* The inputs the operations are given.                                    *)

PermSeqs(S) ==
    { f \in [1..Cardinality(S) -> S] : \A i, j \in DOMAIN f : f[i] = f[j] => i = j }

PluginDirListings == PermSeqs(listdir(PluginDir))
ExtraDirListings == PermSeqs(listdir(ExtraDir))

LoadArgs ==
    { PathArg(FileA), PathArg(FileB), PathArg(FileE), PathArg(PluginDir),
      ListArg(<<FileC>>) }

ArgPaths(arg) ==
    IF arg.list THEN { arg.items[i] : i \in DOMAIN arg.items } ELSE { arg.path }

\* What os.listdir may return for the directories a load reads.
Listings(arg) ==
    { [d \in Dirs |-> IF d = PluginDir THEN l1 ELSE IF d = ExtraDir THEN l2 ELSE <<>>] :
        l1 \in (IF PluginDir \in ArgPaths(arg) THEN PluginDirListings ELSE {<<>>}),
        l2 \in (IF ExtraDir \in ArgPaths(arg) THEN ExtraDirListings ELSE {<<>>}) }

\* Direct calls of register_action(plugin, action, method).
RegisterCalls ==
    { <<"pa", Ping, Method(FileA, "a_other")>>,
      <<"pb", ModulesList, Method(FileB, "b_list")>> }

EmptyPayload == Payload({}, <<>>, "", "", 0)
PathPayload(path) == Payload({"path"}, path, "", "", 0)
TailPayload(keys) == Payload(keys, <<>>, "t1", "127.0.0.1", 9)

PayloadsOf(action) ==
    IF action = ModulesLoad
    THEN { EmptyPayload, PathPayload(FileE), PathPayload(Missing) }
    ELSE IF action = LogfileTail
    THEN { TailPayload({"task_id", "dest_ip", "dest_port"}),
           TailPayload({"dest_ip", "dest_port"}),
           TailPayload({"task_id", "dest_port"}),
           TailPayload({"task_id", "dest_ip"}) }
    ELSE { EmptyPayload }

DispatchActions ==
    { LogfileTail, ModulesList, ModulesLoad, ModulesActions, ModulesReload,
      Ping, Pong, RollbackPing, RollbackZz, RollbackNoUnderscore, Nope }

\* One caller's work items carry the id of one transaction, or none: what
\* dispatch does with an id does not depend on which id it is.  (Two
\* transactions at once are the matter of SpecConc.)
IdsOf(action) == {"t1", NoId}

WorkItems ==
    UNION { { WorkItem(a, i, p) : i \in IdsOf(a), p \in PayloadsOf(a) } :
            a \in DispatchActions }

TransDirs == {"ok", "missing", "unwritable"}

\* The environment a dispatch meets; only logfile.tail opens a file or a
\* socket, so only there the two outcomes of each are told apart.
EnvsOf(action) ==
    IF action = LogfileTail
    THEN [dir : TransDirs, file : BOOLEAN, conn : BOOLEAN]
    ELSE [dir : TransDirs, file : {TRUE}, conn : {TRUE}]

\* What a plugin's handler may do with a work item.
HandlerResults ==
    { [raises |-> TRUE, result |-> NoneResult],
      [raises |-> FALSE, result |-> Success],
      [raises |-> FALSE,
       result |-> Result(2, <<"failed">>, NameValue("k", <<"v">>))] }

\* The built-in handlers are modelled in full; only a plugin's handler
\* draws its outcome.
HandlerResultsOf(action) ==
    IF action \in {LogfileTail, ModulesList, ModulesLoad, ModulesActions,
                   ModulesReload}
    THEN { [raises |-> FALSE, result |-> Success] }
    ELSE HandlerResults

-----------------------------------------------------------------------------
(* The state machine.                                                      *)

\* last and trace hold the outcome of a call until its caller has taken it
\* (Continue); the manager is single-threaded, so the next call starts then.
Idle == [op |-> "idle", arg |-> <<>>, dir |-> "ok", exc |-> "none",
         res |-> NoneResult]

\* threads holds the calls in progress when the manager is called from
\* two threads (SpecConc below); here every call is made by one caller.
NoThreads == <<>>

Init ==
    /\ dispatch_table =
          (LogfileTail :> BuiltinEntry(handle_logfile))
          @@ (ModulesList :> BuiltinEntry(handle_modules))
          @@ (ModulesLoad :> BuiltinEntry(handle_modules))
          @@ (ModulesActions :> BuiltinEntry(handle_modules))
          @@ (ModulesReload :> BuiltinEntry(handle_modules))
    /\ loaded_modules = <<"modules">>
    /\ output_plugins = <<>>
    /\ shortpath = NoShortpath
    /\ handlers = [i \in Ids |-> 0]
    /\ teardowns = <<>>
    /\ last = Idle
    /\ trace = <<>>
    /\ threads = NoThreads

Cur == State(dispatch_table, loaded_modules, output_plugins, shortpath,
             handlers, teardowns)

\* The operation op(arg) ended in r.
Commit(r, op, arg, dir) ==
    /\ dispatch_table' = r.dt
    /\ loaded_modules' = r.lm
    /\ output_plugins' = r.op
    /\ shortpath' = r.sp
    /\ handlers' = r.th
    /\ teardowns' = r.td
    /\ last' = [op |-> op, arg |-> arg, dir |-> dir, exc |-> r.exc,
                res |-> IF r.exc = "none" THEN r.res ELSE NoneResult]
    /\ trace' = r.tr
    /\ UNCHANGED threads

Load ==
    /\ last = Idle
    /\ \E arg \in LoadArgs : \E listing \in Listings(arg) :
          LET r == load(Cur, arg, listing)
          IN  /\ Len(r.lm) <= MaxLoaded
              /\ Commit(r, "load", arg, "ok")

Register ==
    /\ last = Idle
    /\ \E c \in RegisterCalls :
          Commit(register_action(Cur, c[1], c[2], c[3], <<>>, <<>>, <<>>),
                 "register_action", c, "ok")

Dispatch ==
    /\ last = Idle
    /\ \E input_data \in WorkItems : \E env \in EnvsOf(input_data.action) :
       \E hres \in HandlerResultsOf(input_data.action) :
          LET r == dispatch(Cur, input_data, env, hres)
          IN  /\ r.th["t1"] + r.th["t2"] <= MaxHandlers
              /\ Commit(r, "dispatch", input_data, env.dir)

Stop ==
    /\ last = Idle
    /\ \A g \in DOMAIN teardowns : teardowns[g] < MaxTeardowns
    /\ Commit(stop(Cur), "stop", <<>>, "ok")

Continue ==
    /\ last # Idle
    /\ last' = Idle
    /\ trace' = <<>>
    /\ UNCHANGED <<dispatch_table, loaded_modules, output_plugins, shortpath,
                   handlers, teardowns, threads>>

Next == Load \/ Register \/ Dispatch \/ Stop \/ Continue

Spec == Init /\ [][Next]_vars

-----------------------------------------------------------------------------
(* The manager called from two threads.  dispatch and register_action hold *)
(* no lock, so the statements of two calls interleave; each action below   *)
(* is one statement (or one run of statements on the thread's own locals   *)
(* and one access to the manager's fields) of one thread's call.           *)

Threads == {1, 2}

\* The transaction of the work item thread t dispatches.
TxnOf(t) == IF t = 1 THEN "t1" ELSE "t2"

\* The register_action call of thread t: two units racing on one action.
RaceOf(t) ==
    IF t = 1 THEN <<"pa", Zap, Method(FileA, "a_zap")>>
    ELSE <<"pb", Zap, Method(FileB, "b_zap")>>

NoFn == Method(<<>>, "none")
NoLogger == <<"none", "none">>
\* ns = None
NoNs == [LOG |-> NoLogger, unit |-> <<>>, gen |-> 0, teardown |-> FALSE]
NoReg == <<"", <<>>, NoFn>>
NoItem == WorkItem(<<>>, NoId, EmptyPayload)

\* The locals of a call: its position pc, its arguments (input_data, or
\* reg for register_action), dispatch's fn, plugin, ns and t_LOG, the
\* logger the plugin had when the handler was entered (seen), and how the
\* call ended.
NotCalled ==
    [pc |-> "idle", op |-> "none", input_data |-> NoItem, reg |-> NoReg,
     fn |-> NoFn, plugin |-> "", ns |-> NoNs, t_LOG |-> NoLogger,
     seen |-> NoLogger, exc |-> "none", res |-> NoneResult]

\* The constructor given a.py as its path: line 78 loads it.
Constructed ==
    load(State((LogfileTail :> BuiltinEntry(handle_logfile))
               @@ (ModulesList :> BuiltinEntry(handle_modules))
               @@ (ModulesLoad :> BuiltinEntry(handle_modules))
               @@ (ModulesActions :> BuiltinEntry(handle_modules))
               @@ (ModulesReload :> BuiltinEntry(handle_modules)),
               <<"modules">>, <<>>, NoShortpath, [i \in Ids |-> 0], <<>>),
         PathArg(FileA), [d \in Dirs |-> <<>>])

InitConc ==
    /\ dispatch_table = Constructed.dt
    /\ loaded_modules = Constructed.lm
    /\ output_plugins = Constructed.op
    /\ shortpath = Constructed.sp
    /\ handlers = Constructed.th
    /\ teardowns = Constructed.td
    /\ last = Idle
    /\ trace = <<>>
    /\ threads = [t \in Threads |-> NotCalled]

\* Thread t goes on with th, the manager's fields being those of st.
Step(t, th, st) ==
    /\ threads' = [threads EXCEPT ![t] = th]
    /\ dispatch_table' = st.dt
    /\ loaded_modules' = st.lm
    /\ output_plugins' = st.op
    /\ shortpath' = st.sp
    /\ handlers' = st.th
    /\ teardowns' = st.td
    /\ UNCHANGED <<last, trace>>

At(t, op, pc) == threads[t].op = op /\ threads[t].pc = pc

\* The call ends: it raises exc, or returns res.
Raised(th, exc) == [th EXCEPT !.pc = "done", !.exc = exc]
Returned(th, res) == [th EXCEPT !.pc = "done", !.res = res]

\* A thread calls dispatch(input_data).
CallDispatch(t) ==
    /\ threads[t].pc = "idle"
    /\ \E action \in {Ping, RollbackPing, Zap} : \E id \in {TxnOf(t), NoId} :
          Step(t, [threads[t] EXCEPT
                     !.op = "dispatch", !.pc = "lookup",
                     !.input_data = WorkItem(action, id, EmptyPayload)],
               Cur)

\* Lines 168-173: the lookup; lines 207-214 when the action is not there.
d_lookup(st, th) ==
    LET action == th.input_data.action
    IN  IF action \in DOMAIN st.dt
        THEN [th EXCEPT !.pc = "dir", !.fn = st.dt[action][1],
                        !.plugin = st.dt[action][4]]
        ELSE IF startswith(action, <<"rollback_">>)
             THEN Returned(th, NoRollback(action))
             ELSE Returned(th, NoDispatcher(action))

DispatchLookup(t) ==
    /\ At(t, "dispatch", "lookup")
    /\ Step(t, d_lookup(Cur, threads[t]), Cur)

\* Lines 177-186: the transaction log directory.
d_dir(th, dir) ==
    IF dir = "missing" THEN Raised(th, "OSError(2)")
    ELSE IF dir # "ok" THEN Raised(th, "OSError(13)")
    ELSE [th EXCEPT !.pc = "ns"]

DispatchDir(t) ==
    /\ At(t, "dispatch", "dir")
    /\ \E dir \in TransDirs : Step(t, d_dir(threads[t], dir), Cur)

\* Lines 189-193: ns and t_LOG are read.
d_ns(st, th) ==
    IF th.plugin \in DOMAIN st.op
    THEN [th EXCEPT !.ns = st.op[th.plugin],
                    !.t_LOG = st.op[th.plugin].LOG,
                    !.pc = IF has_id(th.input_data) THEN "swap" ELSE "call"]
    ELSE [th EXCEPT !.pc = "call"]

DispatchNs(t) ==
    /\ At(t, "dispatch", "ns")
    /\ Step(t, d_ns(Cur, threads[t]), Cur)

\* Lines 194-195: ns['LOG'] = the transaction's logger.
d_swap(st, th) == set_LOG(st, th.plugin, th.ns, TransLogger(th.input_data.id))

DispatchSwap(t) ==
    /\ At(t, "dispatch", "swap")
    /\ Step(t, [threads[t] EXCEPT !.pc = "addHandler"],
            d_swap(Cur, threads[t]))

\* Lines 196-198: a file handler is attached to the transaction's logger.
d_addHandler(st, th) == [st EXCEPT !.th[th.input_data.id] = @ + 1]

DispatchAddHandler(t) ==
    /\ At(t, "dispatch", "addHandler")
    /\ Step(t, [threads[t] EXCEPT !.pc = "call"],
            d_addHandler(Cur, threads[t]))

\* The logger the handlers of plugin log to.
LOG_of(op, plugin) ==
    IF plugin \in DOMAIN op THEN op[plugin].LOG ELSE NoLogger

\* Line 201: the handler is entered.
DispatchCall(t) ==
    /\ At(t, "dispatch", "call")
    /\ Step(t, [threads[t] EXCEPT
                  !.pc = "handler",
                  !.seen = LOG_of(output_plugins, threads[t].plugin)],
            Cur)

\* Line 201: the handler returns its result, or raises.
d_handler(th, hres) ==
    IF hres.raises THEN Raised(th, "HandlerError")
    ELSE [th EXCEPT !.pc = "restore", !.res = hres.result]

DispatchHandler(t) ==
    /\ At(t, "dispatch", "handler")
    /\ \E hres \in HandlerResults : Step(t, d_handler(threads[t], hres), Cur)

\* The restore writing the plugin's own logger instead of t_LOG.
d_restore_own(st, th) ==
    IF th.ns # NoNs
    THEN set_LOG(st, th.plugin, th.ns, PluginLogger(th.plugin))
    ELSE st

\* Lines 203-204: ns['LOG'] = t_LOG.
d_restore(st, th) ==
    IF th.ns # NoNs
    THEN set_LOG(st, th.plugin, th.ns, th.t_LOG)
    ELSE st

\* Lines 203-214: the restore, and dispatch returns the handler's result.
DispatchRestore(t) ==
    /\ At(t, "dispatch", "restore")
    /\ Step(t, Returned(threads[t], threads[t].res),
            d_restore(Cur, threads[t]))

\* A thread calls register_action(plugin, action, method).
CallRegister(t) ==
    /\ threads[t].pc = "idle"
    /\ Step(t, [threads[t] EXCEPT !.op = "register_action", !.pc = "test",
                                  !.reg = RaceOf(t)],
            Cur)

\* Line 137: if action in self.dispatch_table.
r_test(st, th) ==
    [th EXCEPT !.pc = IF th.reg[2] \in DOMAIN st.dt THEN "unpack" ELSE "store"]

RegisterTest(t) ==
    /\ At(t, "register_action", "test")
    /\ Step(t, r_test(Cur, threads[t]), Cur)

\* Lines 138-141: the unpacking of the entry and the raise.
r_unpack(st, th) ==
    IF UnpackError(st.dt[th.reg[2]]) # "none"
    THEN Raised(th, UnpackError(st.dt[th.reg[2]]))
    ELSE Raised(th, "NameError")

RegisterUnpack(t) ==
    /\ At(t, "register_action", "unpack")
    /\ Step(t, r_unpack(Cur, threads[t]), Cur)

\* Lines 143-148: the entry is stored, whatever the table holds by now.
r_store(st, th) ==
    [st EXCEPT !.dt = (th.reg[2] :> <<th.reg[3], st.sp, func_name(th.reg[3]),
                                      th.reg[1], <<>>, <<>>, <<>>>>) @@ @]

RegisterStore(t) ==
    /\ At(t, "register_action", "store")
    /\ IF shortpath = NoShortpath
       THEN Step(t, Raised(threads[t], "AttributeError"), Cur)
       ELSE Step(t, Returned(threads[t], NoneResult), r_store(Cur, threads[t]))

NextConc ==
    \E t \in Threads :
       \/ CallDispatch(t)
       \/ DispatchLookup(t)
       \/ DispatchDir(t)
       \/ DispatchNs(t)
       \/ DispatchSwap(t)
       \/ DispatchAddHandler(t)
       \/ DispatchCall(t)
       \/ DispatchHandler(t)
       \/ DispatchRestore(t)
       \/ CallRegister(t)
       \/ RegisterTest(t)
       \/ RegisterUnpack(t)
       \/ RegisterStore(t)

SpecConc == InitConc /\ [][NextConc]_vars

-----------------------------------------------------------------------------
(* Properties.                                                             *)

IsCall(event) == event[1] = "call"
IsReturn(event) == event[1] = "return"
Calls(tr) == SelectSeq(tr, IsCall)
Returns(tr) == SelectSeq(tr, IsReturn)

Dispatched == last.op = "dispatch"
Registered(action) == action \in DOMAIN dispatch_table
Rollback(action) == startswith(action, <<"rollback_">>)

\* The setup of the unit at path registers an action that dt already holds.
SetupHitsExisting(path, dt) ==
    /\ isfile(path)
    /\ Units[path].hasName
    /\ Units[path].hasSetup
    /\ \E i \in DOMAIN Units[path].regs :
          Units[path].regs[i].action \in DOMAIN dt

\* C1: first registration wins.  In every step every action of the registry
\* stays in it with its entry (handler, owning plugin and the rest)
\* unchanged; a register_action call for an action already present raises
\* and leaves the registry as it was; loading a file whose setup registers
\* an action already present raises.
C1_FirstRegistrationWins ==
    [][ /\ \A a \in DOMAIN dispatch_table :
             /\ a \in DOMAIN dispatch_table'
             /\ dispatch_table'[a] = dispatch_table[a]
        /\ (last'.op = "register_action" /\ last'.arg[2] \in DOMAIN dispatch_table)
             => (last'.exc # "none" /\ dispatch_table' = dispatch_table)
        /\ ( /\ last'.op = "load"
             /\ ~last'.arg.list
             /\ SetupHitsExisting(last'.arg.path, dispatch_table) )
             => last'.exc # "none"
      ]_vars

\* b.py was loaded after a.py: its setup failed on ping, which a.py keeps.
C1_Witness ==
    /\ last.op = "load"
    /\ last.arg = PathArg(FileB)
    /\ last.exc # "none"
    /\ Registered(Ping)
    /\ dispatch_table[Ping][1] = Method(FileA, "a_ping")
    /\ dispatch_table[Ping][4] = "pa"

\* C2: a dispatch of an action that is not registered and does not start
\* with rollback_ returns, whatever the transaction log directory is, the
\* result 253 / 'no dispatcher found for action "<action>"' / '', calls no
\* handler and changes neither the registry, the loaded-plugin list nor a
\* plugin's namespace (its logger).
C2_UnknownAction ==
    [][ ( /\ last'.op = "dispatch"
          /\ last'.arg.action \notin DOMAIN dispatch_table
          /\ ~Rollback(last'.arg.action) )
        => /\ last'.exc = "none"
           /\ last'.res = Result(253,
                                 <<"no dispatcher found for action \"%s\"",
                                   last'.arg.action>>,
                                 EmptyStr)
           /\ trace' = <<>>
           /\ UNCHANGED <<dispatch_table, loaded_modules, output_plugins>>
      ]_vars

\* An unknown action dispatched while the log directory is missing and a
\* plugin is loaded.
C2_Witness ==
    /\ Dispatched
    /\ last.arg.action = Nope
    /\ last.dir = "missing"
    /\ last.res.result_code = 253
    /\ "pa" \in DOMAIN output_plugins

\* C3: a dispatch of a rollback_ action that is not registered returns
\* 0 / 'no rollback action for <action>' / {} and calls no handler; one
\* that is registered goes the way of any registered action: with a usable
\* log directory its handler is called once with the work item and its
\* result is returned, and with an unusable one dispatch raises.
C3_RollbackAction ==
    (Dispatched /\ Rollback(last.arg.action))
    => IF ~Registered(last.arg.action)
       THEN /\ last.exc = "none"
            /\ last.res = Result(0, <<"no rollback action for %s",
                                      last.arg.action>>, EmptyDict)
            /\ trace = <<>>
       ELSE IF last.dir = "ok"
       THEN /\ Calls(trace) =
                 << <<"call", dispatch_table[last.arg.action][1], last.arg>> >>
            /\ last.exc = "none" =>
                 Returns(trace) =
                   << <<"return", dispatch_table[last.arg.action][1],
                        last.res>> >>
       ELSE last.exc \in {"OSError(2)", "OSError(13)"} /\ trace = <<>>

\* rollback_ping dispatched with no handler for it while ping has one (b.py
\* registered ping), and the log directory unwritable.
C3_Witness ==
    /\ Dispatched
    /\ last.arg.action = RollbackPing
    /\ ~Registered(RollbackPing)
    /\ Registered(Ping)
    /\ last.dir = "unwritable"
    /\ last.res.result_code = 0

\* C4: after every dispatch that carries an id to an action of a loaded
\* plugin, the handler having returned or raised, the plugin's logger is
\* the one it had before the dispatch.
C4_LoggerRestored ==
    [][ ( /\ last'.op = "dispatch"
          /\ has_id(last'.arg)
          /\ last'.arg.action \in DOMAIN dispatch_table
          /\ dispatch_table[last'.arg.action][4] \in DOMAIN output_plugins )
        => /\ dispatch_table[last'.arg.action][4] \in DOMAIN output_plugins'
           /\ output_plugins'[dispatch_table[last'.arg.action][4]].LOG =
                output_plugins[dispatch_table[last'.arg.action][4]].LOG
      ]_vars

\* C5: a dispatch of a registered action with the log directory missing or
\* unwritable raises OSError with nothing done: no handler call, no logger
\* assignment, no file handler attached.
C5_LogDirPrecondition ==
    [][ ( /\ last'.op = "dispatch"
          /\ last'.arg.action \in DOMAIN dispatch_table
          /\ last'.dir # "ok" )
        => /\ last'.exc = (IF last'.dir = "missing"
                           THEN "OSError(2)" ELSE "OSError(13)")
           /\ trace' = <<>>
           /\ UNCHANGED <<output_plugins, handlers>>
      ]_vars

\* ping of the loaded plugin "pa", dispatched with an id while the log
\* directory is unwritable.
C5_Witness ==
    /\ Dispatched
    /\ last.arg.action = Ping
    /\ last.arg.id = "t1"
    /\ Registered(Ping)
    /\ dispatch_table[Ping][4] = "pa"
    /\ "pa" \in DOMAIN output_plugins
    /\ last.dir = "unwritable"
    /\ last.exc = "OSError(13)"

\* C6: a dispatch of a registered action with a usable log directory calls
\* the handler registered for the action, once, with the work item, and no
\* other handler; when the handler returns, dispatch returns what it
\* returned.
C6_HandlerResultVerbatim ==
    [][ ( /\ last'.op = "dispatch"
          /\ last'.arg.action \in DOMAIN dispatch_table
          /\ last'.dir = "ok" )
        => /\ Calls(trace') =
                << <<"call", dispatch_table[last'.arg.action][1], last'.arg>> >>
           /\ last'.exc = "none" =>
                Returns(trace') =
                  << <<"return", dispatch_table[last'.arg.action][1],
                       last'.res>> >>
      ]_vars

\* ping, registered by b.py, returned a failure result that dispatch
\* returned.
C6_Witness ==
    /\ Dispatched
    /\ last.arg.action = Ping
    /\ last.arg.id = "t1"
    /\ Registered(Ping)
    /\ dispatch_table[Ping][1] = Method(FileB, "b_ping")
    /\ last.exc = "none"
    /\ last.res.result_code = 2

\* The names of loaded_modules.
Loaded == { loaded_modules[i] : i \in DOMAIN loaded_modules }

\* C7: a dispatch of modules.load with the path of an existing file (and a
\* usable log directory) returns a result of code 0, after which the
\* unit's name is in loaded_modules and the actions of its setup are in
\* the registry.
C7_ModulesLoad ==
    ( /\ Dispatched
      /\ last.arg.action = ModulesLoad
      /\ has_key(last.arg.payload, "path")
      /\ isfile(last.arg.payload.path)
      /\ last.dir = "ok" )
    => /\ last.exc = "none"
       /\ last.res.result_code = 0
       /\ Units[last.arg.payload.path].hasName
            => Units[last.arg.payload.path].name \in Loaded
       /\ Units[last.arg.payload.path].hasSetup
            => \A i \in DOMAIN Units[last.arg.payload.path].regs :
                 Registered(Units[last.arg.payload.path].regs[i].action)

\* The result the claim gives for a modules.load without a usable path.
ModulesLoadFailure(payload) ==
    Result(2,
           IF has_key(payload, "path")
           THEN <<"specified module does not exist">>
           ELSE <<"no \"path\" specified in payload">>,
           EmptyDict)

BadPath(payload) == ~has_key(payload, "path") \/ ~isfile(payload.path)

\* C8 as stated: a dispatch of modules.load without payload.path, or with
\* one that is no existing file, returns the failure result and changes
\* neither the registry, the loaded-plugin list nor the namespaces.
C8_AsStated ==
    [][ ( /\ last'.op = "dispatch"
          /\ last'.arg.action = ModulesLoad
          /\ BadPath(last'.arg.payload) )
        => /\ last'.exc = "none"
           /\ last'.res = ModulesLoadFailure(last'.arg.payload)
           /\ UNCHANGED <<dispatch_table, loaded_modules, output_plugins>>
      ]_vars

\* C8, amended: the same, for a dispatch that finds the transaction log
\* directory existing and writable.
C8_ModulesLoadBadPath ==
    [][ ( /\ last'.op = "dispatch"
          /\ last'.arg.action = ModulesLoad
          /\ BadPath(last'.arg.payload)
          /\ last'.dir = "ok" )
        => /\ last'.exc = "none"
           /\ last'.res = ModulesLoadFailure(last'.arg.payload)
           /\ UNCHANGED <<dispatch_table, loaded_modules, output_plugins>>
      ]_vars

\* modules.load of a path that names nothing, with an id, while a plugin
\* named "modules" is loaded (its logger is substituted and restored).
C8_Witness ==
    /\ Dispatched
    /\ last.arg.action = ModulesLoad
    /\ last.arg.payload = PathPayload(Missing)
    /\ last.arg.id = "t1"
    /\ last.dir = "ok"
    /\ last.res.result_code = 2
    /\ "modules" \in DOMAIN output_plugins

\* s is the start of t.
IsPrefix(s, t) == Len(s) <= Len(t) /\ SubSeq(t, 1, Len(s)) = s

\* C9: loaded_modules starts with "modules" and only grows at its end; the
\* load of a file that exposes a name and returns appends that name; the
\* load of a unit without a name returns and changes neither
\* loaded_modules, the namespaces nor the registry; modules.list returns
\* loaded_modules.
C9_ModulesList ==
    [][ /\ loaded_modules'[1] = "modules"
        /\ IsPrefix(loaded_modules, loaded_modules')
        /\ ( /\ last'.op = "load"
             /\ ~last'.arg.list
             /\ isfile(last'.arg.path)
             /\ Units[last'.arg.path].hasName
             /\ last'.exc = "none" )
             => loaded_modules' =
                  Append(loaded_modules, Units[last'.arg.path].name)
        /\ (last'.op = "load" /\ last'.arg = ListArg(<<FileC>>))
             => /\ last'.exc = "none"
                /\ UNCHANGED <<loaded_modules, output_plugins, dispatch_table>>
        /\ ( /\ last'.op = "dispatch"
             /\ last'.arg.action = ModulesList
             /\ last'.dir = "ok" )
             => /\ last'.exc = "none"
                /\ last'.res = Result(0, <<"success">>,
                                      NameValue("roush_agent_output_modules",
                                                loaded_modules'))
      ]_vars

\* modules.list after a.py and then the nameless c.py were loaded.
C9_Witness ==
    /\ Dispatched
    /\ last.arg.action = ModulesList
    /\ last.exc = "none"
    /\ loaded_modules = <<"modules", "pa">>
    /\ shortpath = <<"c", ".py">>

\* What was given when the entry e of action k was registered: the built-in
\* entries, the register_action calls of the units' setups and the direct
\* calls.
GivenAt(k, e) ==
    IF e[1] \in {handle_modules, handle_logfile}
    THEN [plugin |-> "modules", constraints |-> <<>>, consequences |-> <<>>,
          args |-> <<>>]
    ELSE IF e[1] = Method(FileA, "a_other")
    THEN [plugin |-> "pa", constraints |-> <<>>, consequences |-> <<>>,
          args |-> <<>>]
    ELSE LET u == Units[e[1].unit]
             i == CHOOSE j \in DOMAIN u.regs : u.regs[j].action = k
         IN  [plugin |-> u.name, constraints |-> u.regs[i].constraints,
              consequences |-> u.regs[i].consequences, args |-> u.regs[i].args]

\* C10: modules.actions returns a mapping over exactly the actions of the
\* registry, each entry holding the plugin, constraints, consequences and
\* args given at registration and nothing else.
C10_ModulesActions ==
    ( /\ Dispatched
      /\ last.arg.action = ModulesActions
      /\ last.dir = "ok" )
    => /\ last.exc = "none"
       /\ last.res.result_code = 0
       /\ last.res.result_data[2] = "roush_agent_actions"
       /\ DOMAIN last.res.result_data[3] = DOMAIN dispatch_table
       /\ \A k \in DOMAIN dispatch_table :
            last.res.result_data[3][k] = GivenAt(k, dispatch_table[k])

\* modules.actions while a.py's ping and rollback_ping are registered.
C10_Witness ==
    /\ Dispatched
    /\ last.arg.action = ModulesActions
    /\ last.exc = "none"
    /\ Registered(Ping)
    /\ dispatch_table[Ping][4] = "pa"
    /\ Registered(RollbackPing)

\* C11: a register_action call for an action that the registry already
\* holds, be it a built-in entry or a plugin's, raises the duplicate-action
\* error (the NameError of line 139, which names the action and the prior
\* registration's path and name) and no other error.
C11_DuplicateActionError ==
    [][ ( /\ last'.op = "register_action"
          /\ last'.arg[2] \in DOMAIN dispatch_table )
        => last'.exc = "NameError"
      ]_vars

\* The files of the directory path that _load_directory hands to
\* _load_file and that expose a name.
NamedUnitsOf(path) ==
    { join(path, f) : f \in { g \in listdir(path) :
        /\ ~isdir(join(path, g))
        /\ path_endswith(join(path, g), <<".py">>)
        /\ isfile(join(path, g))
        /\ Units[join(path, g)].hasName } }

\* A unit whose load cannot fail: it has no setup, so it registers nothing.
Loadable(p) == ~Units[p].hasSetup

\* C12: after load of a directory, whether or not the load of one of its
\* units failed, every loadable unit of the directory is in the
\* loaded-plugin list.
C12_DirectoryLoadContinues ==
    ( /\ last.op = "load"
      /\ ~last.arg.list
      /\ isdir(last.arg.path) )
    => \A p \in NamedUnitsOf(last.arg.path) :
          Loadable(p) => Units[p].name \in Loaded

\* C13: the teardown of every loaded unit that defines one has run at most
\* once, and exactly once when stop has just been called, also when two
\* loaded units declare the same name.  (teardowns counts the calls per
\* loaded unit, a unit being told by its position in loaded_modules.)
C13_TeardownExactlyOnce ==
    \A g \in DOMAIN teardowns :
       /\ teardowns[g] <= 1
       /\ last.op = "stop" => teardowns[g] = 1

\* The payload lacks one of the keys logfile.tail needs.
MissingTailKey(payload) ==
    \/ ~has_key(payload, "task_id")
    \/ ~has_key(payload, "dest_ip")
    \/ ~has_key(payload, "dest_port")

\* The handler read a transaction log file or used a socket.
IsIO(event) == event[1] \in {"open", "connect", "send"}

\* C14 as stated: a dispatch of logfile.tail with a payload that lacks
\* task_id, dest_ip or dest_port returns the failure result 2 / 'must
\* specify task_id, dest_ip and dest_port', and no transaction log file is
\* read and no socket is used.
C14_AsStated ==
    ( /\ Dispatched
      /\ last.arg.action = LogfileTail
      /\ MissingTailKey(last.arg.payload) )
    => /\ last.exc = "none"
       /\ last.res.result_code = 2
       /\ last.res.result_str =
            <<"must specify task_id, dest_ip and dest_port">>
       /\ SelectSeq(trace, IsIO) = <<>>

\* C14, amended: the same, for a dispatch that finds the transaction log
\* directory existing and writable; the handler is called once and returns
\* that result, whether or not the file could be opened or the peer
\* reached.
C14_TailMissingKeys ==
    ( /\ Dispatched
      /\ last.arg.action = LogfileTail
      /\ MissingTailKey(last.arg.payload)
      /\ last.dir = "ok" )
    => /\ last.exc = "none"
       /\ last.res.result_code = 2
       /\ last.res.result_str =
            <<"must specify task_id, dest_ip and dest_port">>
       /\ SelectSeq(trace, IsIO) = <<>>
       /\ Calls(trace) = << <<"call", handle_logfile, last.arg>> >>

\* logfile.tail without dest_port was dispatched with an id while a plugin
\* is loaded, and returned the failure result.
C14_Witness ==
    /\ Dispatched
    /\ last.arg.action = LogfileTail
    /\ last.arg.id = "t1"
    /\ last.arg.payload = TailPayload({"task_id", "dest_ip"})
    /\ last.dir = "ok"
    /\ last.res.result_code = 2
    /\ "pa" \in DOMAIN output_plugins

\* The unit at path is loaded: a recorded namespace came from it.
AlreadyLoaded(path, op) == \E n \in DOMAIN op : op[n].unit = path

\* C15: the load of a plugin file that is already loaded returns without
\* error and leaves the registry and the loaded-plugin list as they were
\* (so that the list does not come to hold the unit's name twice).
C15_LoadIdempotent ==
    [][ ( /\ last'.op = "load"
          /\ ~last'.arg.list
          /\ isfile(last'.arg.path)
          /\ AlreadyLoaded(last'.arg.path, output_plugins) )
        => /\ last'.exc = "none"
           /\ UNCHANGED <<dispatch_table, loaded_modules>>
      ]_vars

\* The actions the manager registers for itself at construction.
Builtins ==
    {LogfileTail, ModulesList, ModulesLoad, ModulesActions, ModulesReload}

\* Every assignment to a plugin's LOG noted in tr assigned the logger the
\* plugin has in op: no plugin's logger was changed.
NoLoggerChange(tr, op) ==
    \A i \in DOMAIN tr :
       tr[i][1] = "LOG" =>
          /\ tr[i][2] \in DOMAIN op
          /\ tr[i][3] = op[tr[i][2]].LOG

IsAddHandler(event) == event[1] = "addHandler"

\* C16: a dispatch of a built-in action never substitutes a plugin's
\* logger and never attaches a trans_<id>.log handler, whatever plugins
\* are loaded; a dispatch without an id changes no plugin's logger at any
\* point of the call.
C16_BuiltinNoLogContext ==
    [][ last'.op = "dispatch"
        => /\ last'.arg.action \in Builtins
              => /\ NoLoggerChange(trace', output_plugins)
                 /\ SelectSeq(trace', IsAddHandler) = <<>>
                 /\ handlers' = handlers
           /\ ~has_id(last'.arg)
              => /\ NoLoggerChange(trace', output_plugins)
                 /\ \A n \in DOMAIN output_plugins :
                       /\ n \in DOMAIN output_plugins'
                       /\ output_plugins'[n].LOG = output_plugins[n].LOG
      ]_vars

\* Thread t takes the step of dispatch from pc to pc2.
Takes(t, pc, pc2) == At(t, "dispatch", pc) /\ threads'[t].pc = pc2

\* Thread t holds a namespace whose logger it substitutes and restores.
InLogContext(t) ==
    /\ threads[t].op = "dispatch"
    /\ threads[t].ns # NoNs
    /\ has_id(threads[t].input_data)
    /\ threads[t].pc \in {"swap", "addHandler", "call", "handler", "restore",
                          "done"}

\* C17: with two dispatches running concurrently nothing orders their
\* logger substitutions and restores.  A dispatch's substitution sets the
\* plugin's logger to its own transaction's logger whatever the other
\* dispatch set; its restore sets it to the logger it read on entry, which
\* is the plugin's own logger or the other transaction's logger; no other
\* step writes the plugin's logger.  (C17_Witness is the unsafe
\* interleaving this allows.)
C17_SwapRestoreRace ==
    [][ \A t \in Threads :
          /\ Takes(t, "swap", "addHandler")
               => LOG_of(output_plugins', threads[t].plugin) =
                    TransLogger(threads[t].input_data.id)
          /\ (Takes(t, "restore", "done") /\ threads[t].ns # NoNs)
               => LOG_of(output_plugins', threads[t].plugin) = threads[t].t_LOG
          /\ InLogContext(t)
               => threads[t].t_LOG \in
                    {PluginLogger(threads[t].plugin)}
                    \cup {TransLogger(TxnOf(o)) : o \in Threads \ {t}}
          /\ ( /\ threads'[t] # threads[t]
               /\ ~Takes(t, "swap", "addHandler")
               /\ ~Takes(t, "restore", "done") )
               => output_plugins' = output_plugins
      ]_vars

\* Two dispatches with different transaction ids to actions of the plugin
\* "pa" have both returned; the handler of one was entered while the
\* plugin's logger was the other transaction's logger, and the plugin's
\* logger is now a transaction's logger.
C17_Witness ==
    /\ \A t \in Threads :
          /\ threads[t].op = "dispatch"
          /\ threads[t].pc = "done"
          /\ threads[t].exc = "none"
          /\ threads[t].plugin = "pa"
          /\ threads[t].input_data.id = TxnOf(t)
    /\ \E t \in Threads : \E o \in Threads \ {t} :
          threads[t].seen = TransLogger(TxnOf(o))
    /\ output_plugins["pa"].LOG \in { TransLogger(i) : i \in Ids }

\* C18: under every interleaving of two register_action calls for the same
\* action, a binding once written is never overwritten, and when both
\* calls have ended exactly one of them has succeeded.
C18_RacingRegistrations ==
    [][ /\ \A a \in DOMAIN dispatch_table :
             /\ a \in DOMAIN dispatch_table'
             /\ dispatch_table'[a] = dispatch_table[a]
        /\ (\A t \in Threads : /\ threads'[t].op = "register_action"
                               /\ threads'[t].pc = "done")
             => Cardinality({ t \in Threads : threads'[t].exc = "none" }) = 1
      ]_vars

\* The entry register_action stores for the i-th registration of the
\* setup of the unit at path.
EntryOf(path, i) ==
    LET u == Units[path]
    IN  <<Method(path, u.regs[i].func), basename(path), u.regs[i].func, u.name,
          u.regs[i].constraints, u.regs[i].consequences, u.regs[i].args>>

\* C19: when the load of a plugin file raises out of the unit's setup, the
\* unit's name has been appended to the loaded-plugin list, its new
\* namespace is recorded under its name, and every action its setup
\* registered before the one that raised is in the registry, bound to the
\* unit's handler.
C19_FailedLoadNotRolledBack ==
    [][ ( /\ last'.op = "load"
          /\ ~last'.arg.list
          /\ isfile(last'.arg.path)
          /\ Units[last'.arg.path].hasName
          /\ last'.exc # "none" )
        => LET path == last'.arg.path
               u == Units[path]
           IN  /\ loaded_modules' = Append(loaded_modules, u.name)
               /\ u.name \in DOMAIN output_plugins'
               /\ output_plugins'[u.name] =
                    Namespace(u.name, path, Len(loaded_modules'))
               /\ u.hasTeardown => Len(loaded_modules') \in DOMAIN teardowns'
               /\ \A i \in DOMAIN u.regs :
                     (\A j \in 1..i : u.regs[j].action \notin DOMAIN dispatch_table)
                     => /\ u.regs[i].action \in DOMAIN dispatch_table'
                        /\ dispatch_table'[u.regs[i].action] = EntryOf(path, i)
      ]_vars

\* b.py was loaded after a.py: its setup registered pong and raised on
\* ping; its name "modules" is listed a second time and pong is bound to
\* b_pong.
C19_Witness ==
    /\ last.op = "load"
    /\ last.arg = PathArg(FileB)
    /\ last.exc # "none"
    /\ loaded_modules = <<"modules", "pa", "modules">>
    /\ output_plugins["modules"].unit = FileB
    /\ Registered(Pong)
    /\ dispatch_table[Pong][1] = Method(FileB, "b_pong")
    /\ dispatch_table[Ping][1] = Method(FileA, "a_ping")

\* The dispatch that ends in the primed state carried an id to an action
\* of a loaded plugin.
ToLoadedPluginWithId ==
    /\ last'.op = "dispatch"
    /\ has_id(last'.arg)
    /\ last'.arg.action \in DOMAIN dispatch_table
    /\ dispatch_table[last'.arg.action][4] \in DOMAIN output_plugins

\* C20 as stated: every dispatch that carries an id to an action of a
\* loaded plugin attaches one more file handler to the logger of that id,
\* and no step ever detaches one.
C20_AsStated ==
    [][ /\ \A i \in Ids : handlers'[i] >= handlers[i]
        /\ ToLoadedPluginWithId
             => handlers' = [handlers EXCEPT ![last'.arg.id] = @ + 1]
      ]_vars

\* C20, amended: every dispatch that carries an id to an action of a loaded
\* plugin and finds the transaction log directory existing and writable
\* attaches one more file handler to the logger of that id, whether the
\* handler then returns or raises; no other step changes the handlers of a
\* logger, so none is ever detached.
C20_HandlersAccumulate ==
    [][ IF ToLoadedPluginWithId /\ last'.dir = "ok"
        THEN handlers' = [handlers EXCEPT ![last'.arg.id] = @ + 1]
        ELSE handlers' = handlers
      ]_vars

\* The second dispatch of ping with the id t1: the logger of t1 holds two
\* file handlers.
C20_Witness ==
    /\ Dispatched
    /\ last.arg.action = Ping
    /\ last.arg.id = "t1"
    /\ last.dir = "ok"
    /\ Registered(Ping)
    /\ dispatch_table[Ping][4] \in DOMAIN output_plugins
    /\ handlers["t1"] = 2

====
